---- MODULE Spec2Model ----
(***************************************************************************)
(* The league graph of src/models.py (League, Team, Match) and the         *)
(* bounded-depth chain enumeration and weighted prediction of              *)
(* src/controllers/optimization.py (_find_all_paths, predict).             *)
(*                                                                         *)
(* `teams` is League._teams, a Team object per name.  A Match holds two    *)
(* Team objects: each is either the object the league holds under that     *)
(* name or a Team(name, [], set()) made by the code that built the Match   *)
(* before the league had the team (add_match then stores a new Team, not   *)
(* the Match's).  Team is a dataclass: `==` compares name, matches and     *)
(* seasons, so the league's Team and the Match's own Team of the same name *)
(* differ as soon as the league's has a match.                             *)
(* A Match has no __eq__: two Match objects are the same only when they    *)
(* are the same object.  Every Match of the model has its own              *)
(* (season, order), so record equality is object identity.                 *)
(* League._teams is a dict; its insertion order is not modelled.           *)
(***************************************************************************)
EXTENDS Integers, Sequences, FiniteSets, TLC

VARIABLES teams, last, call, dfs_stack, dfs_visited, dfs_path, dfs_paths

\* what the invocations of _find_all_paths that run step by step hold
dfsvars == <<call, dfs_stack, dfs_visited, dfs_path, dfs_paths>>

vars == <<teams, last, call, dfs_stack, dfs_visited, dfs_path, dfs_paths>>

----------------------------------------------------------------------------
(* Bounds of the model and program constants *)

\* how many matches a league of Spec holds at most
MaxMatches == 4

\* the matches of a league of Spec are among the first MaxFixture played
MaxFixture == 7

\* how many matches a league of SpecLeague holds at most
MaxLeagueMatches == 2

\* how many add_season_to_team calls SpecLeague makes at most
MaxSeasonAdds == 1

\* how many matches a league of SpecDfs and SpecDfsFair holds at most
MaxDfsMatches == 11

\* how many matches a league of SpecConcurrent holds at most
MaxConcurrentMatches == 3

\* how many matches a league of SpecTwice holds at most
MaxTwiceMatches == 4

\* the invocations of _find_all_paths that may be in progress at once
Calls == {1, 2}

\* predict's fixed depth
PREDICTION_DEPTH == 4

TeamNames == {"A", "B", "C", "D"}

\* the names in alphabetical order
TeamOrder == <<"A", "B", "C", "D">>

Seasons == {"2010-11", "2011-12"}

\* the depth bounds _find_all_paths is called with
Depths == (0 - 1) .. PREDICTION_DEPTH

----------------------------------------------------------------------------
(* models.py: Match, MatchDetails, Team *)

\* MatchDetails, reduced to the one field the prediction reads
MatchDetails(goals) == [full_time_goals |-> goals]

\* Team(name=name, matches=[], seasons=set())
Team(name) == [name |-> name, matches |-> <<>>, seasons |-> {}]

\* a reference to a Team object: the one League._teams holds under the name
\* (of = "league") or a Team(name, [], set()) of the Match's maker
\* (of = "caller"), which nothing ever appends to
TeamRef(name, of) == [name |-> name, of |-> of]

\* the fields of the Team object a reference leads to, ts being League._teams
TeamObject(ts, ref) ==
    IF ref.of = "league" THEN ts[ref.name] ELSE Team(ref.name)

\* Team.__eq__ as @dataclass makes it: name, matches and seasons are equal
team_eq(ts, a, b) == TeamObject(ts, a) = TeamObject(ts, b)

\* Match.__init__: home and away are Team objects, details maps each
\* participant's name to its MatchDetails
Match(season, home, away, order, hg, ag) ==
    [season |-> season, home_team |-> home, away_team |-> away, order |-> order,
     details |-> (home.name :> MatchDetails(hg)) @@ (away.name :> MatchDetails(ag))]

\* a faulty variant of get_other_team: always answers the home side
get_other_team_home(ts, match, known_team) == match.home_team

\* Match.get_other_team
get_other_team(ts, match, known_team) ==
    IF team_eq(ts, known_team, match.home_team) THEN match.away_team
    ELSE match.home_team

\* what one call Match(season, home_team, away_team, order, details, result)
\* is given, the Team objects apart: the season, the names of the two
\* sides, the order and the full_time_goals of either side's MatchDetails
Fixture(season, home, away, order, hg, ag) ==
    [season |-> season, home |-> home, away |-> away, order |-> order,
     home_goals |-> hg, away_goals |-> ag]

\* The matches the leagues of the model are built of, in the order they
\* were played.
Fixtures ==
    << Fixture("2010-11", "A", "C", 1, 1, 1),
       Fixture("2010-11", "D", "C", 2, 0, 2),
       Fixture("2010-11", "D", "B", 3, 2, 0),
       Fixture("2010-11", "A", "B", 4, 3, 1),
       Fixture("2010-11", "B", "A", 5, 1, 2),
       Fixture("2010-11", "B", "C", 6, 4, 1),
       Fixture("2011-12", "A", "B", 1, 0, 1),
       Fixture("2010-11", "C", "D", 7, 2, 1),
       Fixture("2010-11", "A", "B", 8, 0, 0),
       Fixture("2011-12", "D", "B", 2, 1, 0),
       Fixture("2010-11", "C", "A", 9, 1, 3),
       Fixture("2010-11", "D", "A", 10, 2, 2) >>

\* the Team object the maker of a Match passes for the side called name:
\* `league.get_team(name)` when `league.team_in_league(name)`, else a new
\* Team(name, [], set()), the league having no Team to pass before
\* add_match adds it
side(ts, name) ==
    IF name \in DOMAIN ts THEN TeamRef(name, "league") ELSE TeamRef(name, "caller")

\* Match(season, home_team, away_team, order, details, result) of a fixture,
\* made while League._teams is ts
match_of(ts, fixture) ==
    Match(fixture.season, side(ts, fixture.home), side(ts, fixture.away),
          fixture.order, fixture.home_goals, fixture.away_goals)

Range(s) == {s[i] : i \in DOMAIN s}

----------------------------------------------------------------------------
(* models.py: League *)

\* every match some team of the league holds
AllMatches(ts) == UNION {Range(ts[n].matches) : n \in DOMAIN ts}

\* the position in Fixtures of the latest match the league holds (0: none)
LastPlayed(ts) ==
    LET held == {i \in DOMAIN Fixtures :
                    \E m \in AllMatches(ts) : /\ m.season = Fixtures[i].season
                                              /\ m.order = Fixtures[i].order}
    IN  IF held = {} THEN 0 ELSE CHOOSE i \in held : \A j \in held : j <= i

\* League.add_team as a function of the dict
add_team(ts, name) == (name :> Team(name)) @@ ts

\* League.add_season_to_team
add_season_to_team(ts, team, season) ==
    [ts EXCEPT ![team].seasons = @ \cup {season}]

\* a faulty variant of add_match: the match is appended to team1 only
add_match_one_side(ts, team1, team2, match) ==
    LET t1 == IF team1 \in DOMAIN ts THEN ts ELSE add_team(ts, team1)
        t2 == IF team2 \in DOMAIN t1 THEN t1 ELSE add_team(t1, team2)
    IN  [t2 EXCEPT ![team1].matches = Append(@, match)]

\* League.add_match
add_match(ts, team1, team2, match) ==
    LET t1 == IF team1 \in DOMAIN ts THEN ts ELSE add_team(ts, team1)
        t2 == IF team2 \in DOMAIN t1 THEN t1 ELSE add_team(t1, team2)
        t3 == [t2 EXCEPT ![team1].matches = Append(@, match)]
    IN  [t3 EXCEPT ![team2].matches = Append(@, match)]

\* Team's representation invariant: `self == match.home_team or
\* self == match.away_team` for every match of every Team of the league
TeamInvariant(ts) ==
    \A n \in DOMAIN ts : \A i \in DOMAIN ts[n].matches :
        \/ team_eq(ts, TeamRef(n, "league"), ts[n].matches[i].home_team)
        \/ team_eq(ts, TeamRef(n, "league"), ts[n].matches[i].away_team)

\* League.team_in_league
team_in_league(ts, name) == name \in DOMAIN ts

\* a faulty variant of get_team: a missing name is stored and returned (setdefault)
get_team_setdefault(ts, name) ==
    IF name \in DOMAIN ts
    THEN [raised |-> "None", team |-> TeamRef(name, "league"), teams |-> ts]
    ELSE [raised |-> "None", team |-> TeamRef(name, "league"),
          teams |-> add_team(ts, name)]

\* League.get_team: self._teams[name], the league's own Team object; a
\* plain dict raises KeyError on a missing key and is left as it was.
\* `teams` is the dict after the call.
get_team(ts, name) ==
    IF name \in DOMAIN ts
    THEN [raised |-> "None", team |-> TeamRef(name, "league"), teams |-> ts]
    ELSE [raised |-> "KeyError", teams |-> ts]

----------------------------------------------------------------------------
(* controllers/optimization.py: _find_all_paths *)

Last(s) == s[Len(s)]

Front(s) == SubSeq(s, 1, Len(s) - 1)

\* a faulty variant of TooDeep: the bound is checked one edge too late
TooDeepLate(path, depth) == Len(path) > depth + 2

\* `if len(path) > depth: return`
TooDeep(path, depth) == Len(path) > depth

\* a faulty variant of CompletePath: the last match only has to involve away_team
CompletePathEitherSide(ts, path, away_team) ==
    /\ path # <<>>
    /\ \/ team_eq(ts, Last(path).away_team, away_team)
       \/ team_eq(ts, Last(path).home_team, away_team)

\* `if path and path[-1].away_team == away_team`
CompletePath(ts, path, away_team) ==
    path # <<>> /\ team_eq(ts, Last(path).away_team, away_team)

\* a faulty variant of SkipMatch: the visited-set is not consulted
SkipMatchRevisit(ts, match, other_team, season, visited, at_home) ==
    \/ match.season # season
    \/ (~at_home /\ team_eq(ts, match.away_team, other_team))
    \/ (at_home /\ team_eq(ts, match.home_team, other_team))

\* a faulty variant of SkipMatch: the role flag is not consulted
SkipMatchAnyRole(ts, match, other_team, season, visited, at_home) ==
    \/ match.season # season
    \/ other_team.name \in visited

\* the condition of `continue` in dfs's loop
SkipMatch(ts, match, other_team, season, visited, at_home) ==
    \/ match.season # season
    \/ other_team.name \in visited
    \/ (~at_home /\ team_eq(ts, match.away_team, other_team))
    \/ (at_home /\ team_eq(ts, match.home_team, other_team))

RECURSIVE dfs(_, _, _, _), dfs_loop(_, _, _, _, _)

\* dfs(team, path, at_home).  c holds what the closure reads (the league,
\* away_team, season, depth); st holds what it mutates: the result list
\* `paths`, the set `visited` and the list `path` it is handed.
dfs(c, team, at_home, st) ==
    IF TooDeep(st.path, c.depth) THEN st
    ELSE IF CompletePath(c.teams, st.path, c.away_team)
         THEN [st EXCEPT !.paths = Append(@, st.path)]
         ELSE LET entered == [st EXCEPT !.visited = @ \cup {team.name}]
                  looped == dfs_loop(c, team, at_home, 1, entered)
              IN  [looped EXCEPT !.visited = @ \ {team.name}]

\* `for match in team.matches:` from the i-th match on
dfs_loop(c, team, at_home, i, st) ==
    IF i > Len(TeamObject(c.teams, team).matches) THEN st
    ELSE LET match == TeamObject(c.teams, team).matches[i]
             other_team == get_other_team(c.teams, match, team)
         IN  IF SkipMatch(c.teams, match, other_team, c.season, st.visited, at_home)
             THEN dfs_loop(c, team, at_home, i + 1, st)
             ELSE LET pushed == [st EXCEPT !.path = Append(@, match)]
                      back == dfs(c, other_team, ~at_home, pushed)
                      popped == [back EXCEPT !.path = Front(@)]
                  IN  dfs_loop(c, team, at_home, i + 1, popped)

\* _find_all_paths(home_team, away_team, season, depth), home_team and
\* away_team being references to Team objects, while League._teams is ts
find_all_paths(ts, home_team, away_team, season, depth) ==
    dfs([teams |-> ts, away_team |-> away_team, season |-> season, depth |-> depth],
        home_team, TRUE,
        [paths |-> <<>>, visited |-> {}, path |-> <<>>]).paths

----------------------------------------------------------------------------
(* Python floats (IEEE 754 binary64, round to nearest, ties to even), the  *)
(* numbers of `1 / len(path)` and of np.average.                           *)
(* A whole number too large for one machine integer is the sequence of its *)
(* digits in base Limb, lowest digit first, without leading zeros.         *)

\* the base of the digits
Limb == 32768

\* how many bits a digit holds
LimbBits == 15

\* how many bits the significand of a float holds
MantissaBits == 53

Rest(a) == IF a = <<>> THEN <<>> ELSE Tail(a)

Digit(a, i) == IF i <= Len(a) THEN a[i] ELSE 0

RECURSIVE BigOfNat(_)

\* the digits of n >= 0
BigOfNat(n) == IF n = 0 THEN <<>> ELSE <<n % Limb>> \o BigOfNat(n \div Limb)

RECURSIVE BigTrim(_)

\* leading zeros removed
BigTrim(a) == IF a # <<>> /\ a[Len(a)] = 0 THEN BigTrim(Front(a)) ELSE a

RECURSIVE BigAddC(_, _, _)

\* a + b + c, for a carry c
BigAddC(a, b, c) ==
    IF a = <<>> /\ b = <<>> THEN BigOfNat(c)
    ELSE LET x == Digit(a, 1) + Digit(b, 1) + c
         IN  <<x % Limb>> \o BigAddC(Rest(a), Rest(b), x \div Limb)

BigAdd(a, b) == BigAddC(a, b, 0)

RECURSIVE BigSubB(_, _, _)

\* the digits of a - b - w, for a borrow w and a >= b + w
BigSubB(a, b, w) ==
    IF a = <<>> THEN <<>>
    ELSE LET x == a[1] - Digit(b, 1) - w
         IN  <<(x + Limb) % Limb>> \o BigSubB(Tail(a), Rest(b), IF x < 0 THEN 1 ELSE 0)

\* a - b, for a >= b
BigSub(a, b) == BigTrim(BigSubB(a, b, 0))

RECURSIVE BigLessFrom(_, _, _)

BigLessFrom(a, b, i) ==
    IF i = 0 THEN FALSE
    ELSE IF a[i] # b[i] THEN a[i] < b[i]
    ELSE BigLessFrom(a, b, i - 1)

\* a < b
BigLess(a, b) ==
    IF Len(a) # Len(b) THEN Len(a) < Len(b) ELSE BigLessFrom(a, b, Len(a))

RECURSIVE BigMulSmallC(_, _, _)

\* a * k + c, for k and c below Limb
BigMulSmallC(a, k, c) ==
    IF a = <<>> THEN BigOfNat(c)
    ELSE LET x == a[1] * k + c
         IN  <<x % Limb>> \o BigMulSmallC(Tail(a), k, x \div Limb)

BigMulSmall(a, k) == BigTrim(BigMulSmallC(a, k, 0))

\* a * Limb
BigShiftLimb(a) == IF a = <<>> THEN <<>> ELSE <<0>> \o a

RECURSIVE BigMul(_, _)

\* a * b
BigMul(a, b) ==
    IF b = <<>> THEN <<>>
    ELSE BigAdd(BigMulSmall(a, b[1]), BigShiftLimb(BigMul(a, Tail(b))))

RECURSIVE BigShiftLimbs(_, _)

\* a * Limb^n
BigShiftLimbs(a, n) == IF n = 0 THEN a ELSE BigShiftLimbs(BigShiftLimb(a), n - 1)

\* a * 2^k
BigShl(a, k) == BigShiftLimbs(BigMulSmall(a, 2 ^ (k % LimbBits)), k \div LimbBits)

RECURSIVE BigDivSmallFrom(_, _, _, _)

\* the digits of a divided by k, from digit i down, r being the rest so far
BigDivSmallFrom(a, k, i, r) ==
    IF i = 0 THEN <<>>
    ELSE LET x == r * Limb + a[i]
         IN  BigDivSmallFrom(a, k, i - 1, x % k) \o <<x \div k>>

\* a divided by 2^k, rounded down
BigShr(a, k) ==
    LET n == k \div LimbBits
        high == IF n >= Len(a) THEN <<>> ELSE SubSeq(a, n + 1, Len(a))
    IN  BigTrim(BigDivSmallFrom(high, 2 ^ (k % LimbBits), Len(high), 0))

RECURSIVE BitsOfNat(_)

\* how many bits n >= 0 has
BitsOfNat(n) == IF n = 0 THEN 0 ELSE 1 + BitsOfNat(n \div 2)

\* how many bits a has
BigBits(a) ==
    IF a = <<>> THEN 0 ELSE LimbBits * (Len(a) - 1) + BitsOfNat(a[Len(a)])

\* a float: (-1)^neg * man * 2^exp, man being 0 or of exactly MantissaBits
\* bits.  Exponents stay far from the ends of the format's range, so
\* overflow and subnormal numbers are not modelled.
Float(neg, man, exp) == [neg |-> neg, man |-> man, exp |-> exp]

\* 0.0 and -0.0
FloatZero(neg) == Float(neg, <<>>, 0)

\* (-1)^neg * r * 2^e as a float, r having MantissaBits bits or one more
\* with a last bit of 0
float_normal(neg, r, e) ==
    IF BigBits(r) > MantissaBits THEN Float(neg, BigShr(r, 1), e + 1)
    ELSE Float(neg, r, e)

\* q rounded: one more when what was cut off is more than half of the last
\* place, or is half of it with something beyond it or with q odd
float_round_up(neg, q, rest, half, e, sticky) ==
    float_normal(neg,
                 IF \/ BigLess(half, rest)
                    \/ rest = half /\ (sticky \/ q[1] % 2 = 1)
                 THEN BigAdd(q, <<1>>)
                 ELSE q,
                 e)

\* n cut to its first MantissaBits bits q, d bits being cut off
float_round_cut(neg, n, q, d, e, sticky) ==
    float_round_up(neg, q, BigSub(n, BigShl(q, d)), BigShl(<<1>>, d - 1),
                   e + d, sticky)

\* n, with d bits more than MantissaBits, rounded
float_round_bits(neg, n, d, e, sticky) ==
    IF d <= 0 THEN Float(neg, BigShl(n, 0 - d), e + d)
    ELSE float_round_cut(neg, n, BigShr(n, d), d, e, sticky)

\* the float nearest to (-1)^neg * (n + f) * 2^e, ties to the even
\* significand, where 0 <= f < 1 and f # 0 exactly when sticky; with sticky,
\* n has more than MantissaBits + 1 bits
float_round(neg, n, e, sticky) ==
    IF n = <<>> THEN FloatZero(neg)
    ELSE float_round_bits(neg, n, BigBits(n) - MantissaBits, e, sticky)

\* float(n) of an int n
float_of_int(n) ==
    float_round(n < 0, BigOfNat(IF n < 0 THEN 0 - n ELSE n), 0, FALSE)

\* (-1)^xneg * a * 2^e + (-1)^yneg * b * 2^e, for a and b above 0
float_add_aligned(xneg, a, yneg, b, e) ==
    IF xneg # yneg /\ a = b THEN FloatZero(FALSE)
    ELSE float_round(IF xneg = yneg \/ BigLess(b, a) THEN xneg ELSE yneg,
                     IF xneg = yneg THEN BigAdd(a, b)
                     ELSE IF BigLess(a, b) THEN BigSub(b, a)
                     ELSE BigSub(a, b),
                     e, FALSE)

\* x + y
float_add(x, y) ==
    IF x.man = <<>> /\ y.man = <<>> THEN FloatZero(x.neg /\ y.neg)
    ELSE IF x.man = <<>> THEN y
    ELSE IF y.man = <<>> THEN x
    ELSE float_add_aligned(
             x.neg, BigShl(x.man, IF x.exp > y.exp THEN x.exp - y.exp ELSE 0),
             y.neg, BigShl(y.man, IF y.exp > x.exp THEN y.exp - x.exp ELSE 0),
             IF x.exp < y.exp THEN x.exp ELSE y.exp)

\* x * y
float_mul(x, y) ==
    IF x.man = <<>> \/ y.man = <<>> THEN FloatZero(x.neg # y.neg)
    ELSE float_round(x.neg # y.neg, BigMul(x.man, y.man), x.exp + y.exp, FALSE)

\* how many bits of a quotient one step of a division finds
DigitBits == 14

\* how many steps a division takes: MantissaBits + 2 bits or more in all
DivisionSteps == 4

\* the number of the digits a, for a below Limb^2
NatOfBig(a) == Digit(a, 1) + Limb * Digit(a, 2)

\* the digit c appended to the quotient: r is the rest so far times
\* 2^DigitBits, and c * d is taken from it
DivisionDigit(st, d, r, c) ==
    [quot |-> BigAdd(BigMulSmall(st.quot, 2 ^ DigitBits), BigOfNat(c)),
     rest |-> BigSub(r, BigMulSmall(d, c))]

\* a digit not above the next digit of the quotient and less than 3 below
\* it: r by d, r without its last MantissaBits - LimbBits bits and d without
\* them and one more; d has MantissaBits bits
DivisionGuess(r, d) ==
    NatOfBig(BigShr(r, MantissaBits - LimbBits))
        \div (NatOfBig(BigShr(d, MantissaBits - LimbBits)) + 1)

\* the next digit of the quotient: the c with c * d <= r < (c + 1) * d
DivisionTrial(st, d, r, guess) ==
    DivisionDigit(st, d, r,
                  CHOOSE c \in guess .. guess + 2 :
                      /\ ~BigLess(r, BigMulSmall(d, c))
                      /\ BigLess(r, BigMulSmall(d, c + 1)))

\* one more digit of the quotient of a division by d, st holding the quotient
\* and the rest so far, the rest being below d; with nothing left the digit
\* is 0
DivisionStep(st, d) ==
    IF st.rest = <<>>
    THEN [quot |-> BigMulSmall(st.quot, 2 ^ DigitBits), rest |-> <<>>]
    ELSE DivisionTrial(st, d, BigMulSmall(st.rest, 2 ^ DigitBits),
                       DivisionGuess(BigMulSmall(st.rest, 2 ^ DigitBits), d))

RECURSIVE LongDivision(_, _, _)

\* k more digits of the quotient
LongDivision(st, d, k) ==
    IF k = 0 THEN st ELSE DivisionStep(LongDivision(st, d, k - 1), d)

\* the quotient found, rounded: what is left of the dividend counts as
\* something beyond the last bit
float_quotient(neg, st, e) == float_round(neg, st.quot, e, st.rest # <<>>)

\* x / y, for y # 0: the quotient of the significands to MantissaBits + 2
\* bits or one more, rounded
float_div(x, y) ==
    IF x.man = <<>> THEN FloatZero(x.neg # y.neg)
    ELSE float_quotient(
             x.neg # y.neg,
             LongDivision(IF BigLess(x.man, y.man)
                          THEN [quot |-> <<>>, rest |-> x.man]
                          ELSE [quot |-> <<1>>, rest |-> BigSub(x.man, y.man)],
                          y.man, DivisionSteps),
             x.exp - y.exp - DigitBits * DivisionSteps)

RECURSIVE float_sum_from(_, _, _, _)

\* res + xs[lo] + ... + xs[hi], added one after another
float_sum_from(res, xs, lo, hi) ==
    IF hi < lo THEN res
    ELSE float_add(float_sum_from(res, xs, lo, hi - 1), xs[hi])

\* how many running sums numpy keeps side by side
Lanes == 8

\* up to how many numbers numpy adds without halving them
PW_BLOCKSIZE == 128

RECURSIVE Lane(_, _, _)

\* the running sum j over the first k blocks of Lanes numbers:
\* xs[j] + xs[j + Lanes] + ..., added one after another
Lane(xs, j, k) ==
    IF k = 1 THEN xs[j]
    ELSE float_add(Lane(xs, j, k - 1), xs[j + Lanes * (k - 1)])

RECURSIVE float_sum_pairs(_, _, _)

\* r[lo] + ... + r[hi], neighbours added first:
\* ((r[1] + r[2]) + (r[3] + r[4])) + ((r[5] + r[6]) + (r[7] + r[8]))
float_sum_pairs(r, lo, hi) ==
    IF lo = hi THEN r[lo]
    ELSE float_add(float_sum_pairs(r, lo, (lo + hi) \div 2),
                   float_sum_pairs(r, (lo + hi) \div 2 + 1, hi))

\* where numpy halves a run of n floats
HalfOf(n) == (n \div 2) - ((n \div 2) % Lanes)

RECURSIVE pairwise_sum(_)

\* numpy's sum of a run of floats: fewer than Lanes are added one after
\* another from 0.0; up to PW_BLOCKSIZE are added in Lanes running sums,
\* the sums are added in pairs, and what is left over is added one after
\* another; more are halved
pairwise_sum(xs) ==
    IF Len(xs) > PW_BLOCKSIZE
    THEN float_add(pairwise_sum(SubSeq(xs, 1, HalfOf(Len(xs)))),
                   pairwise_sum(SubSeq(xs, HalfOf(Len(xs)) + 1, Len(xs))))
    ELSE float_sum_from(
             IF Len(xs) < Lanes THEN FloatZero(FALSE)
             ELSE float_sum_pairs([j \in 1 .. Lanes |-> Lane(xs, j, Len(xs) \div Lanes)],
                                  1, Lanes),
             xs,
             IF Len(xs) < Lanes THEN 1 ELSE Lanes * (Len(xs) \div Lanes) + 1,
             Len(xs))

\* ndarray.sum of floats: the sum of the run, added to 0.0.  For fewer than
\* Lanes numbers this is Python's sum.
float_sum(xs) == float_add(FloatZero(FALSE), pairwise_sum(xs))

\* avg = np.multiply(a, wgt).sum() / scl, ZeroDivisionError when scl is 0
np_average_scaled(sums) ==
    IF sums.scl.man = <<>>
    THEN [raised |-> "ZeroDivisionError"]
    ELSE [raised |-> "None", value |-> float_div(sums.total, sums.scl)]

\* np.average(a, weights=w) of ints a and floats w: TypeError when the two
\* differ in shape, ZeroDivisionError when the weights sum to zero, else
\* np.multiply(a, w).sum() / w.sum(), the ints a made floats
np_average(a, w) ==
    IF Len(a) # Len(w) THEN [raised |-> "TypeError"]
    ELSE np_average_scaled(
             [scl |-> float_sum(w),
              total |-> float_sum([i \in DOMAIN a |-> float_mul(float_of_int(a[i]), w[i])])])

-----
(* controllers/optimization.py: predict *)

\* a faulty variant of Weight: longer chains weigh more
WeightByLength(path) == float_of_int(Len(path))

\* `weights.append(1 / len(path))`: the quotient of two ints, rounded once,
\* which for ints that are floats is the quotient of the floats
Weight(path) == float_div(float_of_int(1), float_of_int(Len(path)))

\* a faulty variant of home_goal_diff: the away side's goals are not subtracted
home_goal_diff_home_only(match) ==
    match.details[match.home_team.name].full_time_goals

\* home_team_goals - away_team_goals of one match
home_goal_diff(match) ==
    match.details[match.home_team.name].full_time_goals
        - match.details[match.away_team.name].full_time_goals

RECURSIVE total_diff(_)

\* `for match in path: total_diff += home_goal_diff`
total_diff(path) ==
    IF path = <<>> THEN 0 ELSE total_diff(Front(path)) + home_goal_diff(Last(path))

RECURSIVE home_goal_diffs(_)

\* `home_goal_diffs.append(total_diff)`, path after path
home_goal_diffs(paths) ==
    IF paths = <<>> THEN <<>>
    ELSE Append(home_goal_diffs(Front(paths)), total_diff(Last(paths)))

RECURSIVE weights(_)

\* `weights.append(1 / len(path))`, path after path
weights(paths) ==
    IF paths = <<>> THEN <<>>
    ELSE Append(weights(Front(paths)), Weight(Last(paths)))

\* a faulty variant of predict_paths: an empty list of chains predicts 0
predict_paths_zero(paths) ==
    IF paths = <<>> THEN [raised |-> "None", value |-> FloatZero(FALSE)]
    ELSE np_average(home_goal_diffs(paths), weights(paths))

\* predict from `home_goal_diffs = []` on: one signal and one weight per chain
predict_paths(paths) == np_average(home_goal_diffs(paths), weights(paths))

\* predict(home, away, season, league)
predict(ts, home, away, season) ==
    LET home_team == get_team(ts, home)
        away_team == get_team(home_team.teams, away)
    IN  IF home_team.raised # "None" THEN [raised |-> home_team.raised]
        ELSE IF away_team.raised # "None" THEN [raised |-> away_team.raised]
        ELSE predict_paths(find_all_paths(away_team.teams, home_team.team,
                                          away_team.team, season,
                                          PREDICTION_DEPTH))

\* League._teams after predict: its two get_team calls are all that reach
\* into the League object; the search only reads Team.matches
league_after_predict(ts, home, away) ==
    LET home_team == get_team(ts, home)
    IN  IF home_team.raised # "None" THEN home_team.teams
        ELSE get_team(home_team.teams, away).teams

----------------------------------------------------------------------------
(* The state machine: `teams` is League._teams, `last` the latest call,    *)
(* its arguments and what it returned or raised.  One run of the program   *)
(* (commands.py) loads the league and then serves one command: the calls   *)
(* that build the league come first, one call that reads it ends the run.  *)

Init ==
    /\ teams = <<>>
    /\ last = [op |-> "__init__"]
    /\ call = [c \in Calls |-> [status |-> "idle"]]
    /\ dfs_stack = [c \in Calls |-> <<>>]
    /\ dfs_visited = [c \in Calls |-> {}]
    /\ dfs_path = [c \in Calls |-> <<>>]
    /\ dfs_paths = [c \in Calls |-> <<>>]

\* the league is still being built: no command has run yet
Loading == last.op \in {"__init__", "add_team", "add_season_to_team", "add_match"}

NumSeasonAdds(ts) ==
    LET RECURSIVE Count(_)
        Count(S) == IF S = {} THEN 0
                    ELSE LET n == CHOOSE n \in S : TRUE
                         IN  Cardinality(ts[n].seasons) + Count(S \ {n})
    IN  Count(DOMAIN ts)

\* league.add_team(name), name not yet in the league
AddTeam ==
    \E name \in TeamNames \ DOMAIN teams :
        /\ Loading
        /\ teams' = add_team(teams, name)
        /\ last' = [op |-> "add_team", name |-> name]
        /\ UNCHANGED dfsvars

\* league.add_season_to_team(team, season), team in the league
AddSeasonToTeam ==
    \E team \in DOMAIN teams, season \in Seasons :
        /\ Loading
        /\ NumSeasonAdds(teams) < MaxSeasonAdds
        /\ season \notin teams[team].seasons
        /\ teams' = add_season_to_team(teams, team, season)
        /\ last' = [op |-> "add_season_to_team", name |-> team, season |-> season]
        /\ UNCHANGED dfsvars

\* match = Match(...) of a later fixture with the league's Team objects
\* where it has them, then league.add_match(team1, team2, match), the two
\* sides named in either order; the league holds fewer than limit matches
AddMatch(limit) ==
    \E k \in DOMAIN Fixtures, home_first \in BOOLEAN :
        LET match == match_of(teams, Fixtures[k])
            team1 == IF home_first THEN match.home_team.name ELSE match.away_team.name
            team2 == IF home_first THEN match.away_team.name ELSE match.home_team.name
        IN  /\ Loading
            /\ k > LastPlayed(teams)
            /\ Cardinality(AllMatches(teams)) < limit
            /\ teams' = add_match(teams, team1, team2, match)
            /\ last' = [op |-> "add_match", team1 |-> team1, team2 |-> team2,
                        match |-> match]
            /\ UNCHANGED dfsvars

\* league.get_team(name)
GetTeam ==
    \E name \in TeamNames :
        LET r == get_team(teams, name)
        IN  /\ Loading
            /\ teams' = r.teams
            /\ last' = [op |-> "get_team", name |-> name, raised |-> r.raised,
                        team |-> IF r.raised = "None" THEN r.team
                                 ELSE TeamRef("", "caller")]
            /\ UNCHANGED dfsvars

\* _find_all_paths(league.get_team(home_team), league.get_team(away_team),
\* season, depth)
FindAllPaths ==
    \E home_team \in DOMAIN teams, away_team \in DOMAIN teams,
       season \in Seasons, depth \in Depths :
        /\ Loading
        /\ last' = [op |-> "_find_all_paths", home_team |-> home_team,
                    away_team |-> away_team, season |-> season, depth |-> depth,
                    raised |-> "None",
                    paths |-> find_all_paths(teams, get_team(teams, home_team).team,
                                             get_team(teams, away_team).team,
                                             season, depth)]
        /\ UNCHANGED <<teams, dfsvars>>

\* predict(home, away, season, league)
Predict ==
    \E home \in TeamNames, away \in TeamNames, season \in Seasons :
        LET r == predict(teams, home, away, season)
        IN  /\ Loading
            /\ last' = [op |-> "predict", home |-> home, away |-> away,
                        season |-> season, raised |-> r.raised,
                        value |-> IF r.raised = "None" THEN r.value ELSE FloatZero(FALSE)]
            /\ teams' = league_after_predict(teams, home, away)
            /\ UNCHANGED dfsvars

\* add_team before the first add_match, the names taken in alphabetical
\* order
AddTeamFirst ==
    /\ AddTeam
    /\ AllMatches(teams) = {}
    /\ \E k \in 1 .. Len(TeamOrder) : DOMAIN teams' = Range(SubSeq(TeamOrder, 1, k))

\* add_match of the match played next, none left out
AddNextMatch(limit) ==
    AddMatch(limit) /\ LastPlayed(teams') = LastPlayed(teams) + 1

\* add_match of one of the first MaxFixture matches played
AddEarlyMatch(limit) ==
    AddMatch(limit) /\ LastPlayed(teams') <= MaxFixture

\* a league is loaded, team by team and match by match, and queried
Next ==
    AddTeamFirst \/ AddEarlyMatch(MaxMatches) \/ GetTeam \/ FindAllPaths \/ Predict

Spec == Init /\ [][Next]_vars

\* a league is built by every operation of League and looked up
NextLeague ==
    AddTeam \/ AddSeasonToTeam \/ AddNextMatch(MaxLeagueMatches) \/ GetTeam

SpecLeague == Init /\ [][NextLeague]_vars

----------------------------------------------------------------------------
(* _find_all_paths step by step: every invocation c has its own result     *)
(* list dfs_paths[c], its own set dfs_visited[..] and its own list          *)
(* dfs_path[c] (lines 113, 114, 141), and dfs_stack[c] holds its active     *)
(* dfs calls, innermost last.  A frame is at "enter" (the two tests at the  *)
(* top of dfs), at "loop" (before the i-th match of team.matches) or at     *)
(* "back" (the recursive call at line 136 has returned).  entry_visited     *)
(* and entry_path record what visited and path were when the call was made. *)

\* a faulty variant of visited_slot: one set shared by every invocation
visited_slot_shared(c) == 1

\* `visited: set[str] = set()` is a local of the invocation
visited_slot(c) == c

\* `visited.add(team.name)`
mark(visited, team) == visited \cup {team}

\* a faulty variant of unmark: the team stays marked
unmark_forget(visited, team) == visited

\* `visited.remove(team.name)`
unmark(visited, team) == visited \ {team}

\* a faulty variant of next_index: the loop never moves on
next_index_stuck(i) == i

\* the for loop takes the next match of team.matches
next_index(i) == i + 1

\* the frame of a call dfs(team, path, at_home) that has just been made
Frame(team, at_home, visited, path) ==
    [team |-> team, at_home |-> at_home, pc |-> "enter", i |-> 0,
     entry_visited |-> visited, entry_path |-> path]

Running(c) == call[c].status = "running"

\* the stack and the invocation after the innermost dfs call returns; when
\* the outermost returns, _find_all_paths returns paths
Return(c) ==
    /\ dfs_stack' = [dfs_stack EXCEPT ![c] = Front(@)]
    /\ call' = [call EXCEPT ![c].status =
                    IF Len(dfs_stack[c]) = 1 THEN "done" ELSE @]

\* _find_all_paths(home_team, away_team, season, depth) is called on two
\* Team objects of the loaded league: lines 113, 114 and the call
\* dfs(home_team, [], True)
StartCall(c, depths) ==
    \E home_team \in DOMAIN teams, away_team \in DOMAIN teams,
       season \in Seasons, depth \in depths :
        /\ call[c].status = "idle"
        /\ Loading \/ \E d \in Calls : call[d].status # "idle"
        /\ call' = [call EXCEPT ![c] =
                       [status |-> "running", home_team |-> home_team,
                        away_team |-> away_team, season |-> season,
                        depth |-> depth]]
        /\ dfs_paths' = [dfs_paths EXCEPT ![c] = <<>>]
        /\ dfs_visited' = [dfs_visited EXCEPT ![visited_slot(c)] = {}]
        /\ dfs_path' = [dfs_path EXCEPT ![c] = <<>>]
        /\ dfs_stack' = [dfs_stack EXCEPT ![c] =
                             <<Frame(get_team(teams, home_team).team, TRUE, {}, <<>>)>>]
        /\ last' = [op |-> "dfs"]
        /\ UNCHANGED teams

\* the top of dfs: lines 118-125
DfsEnter(c) ==
    LET f == Last(dfs_stack[c])
        s == visited_slot(c)
    IN  /\ Running(c) /\ f.pc = "enter"
        /\ IF TooDeep(dfs_path[c], call[c].depth)
           THEN Return(c) /\ UNCHANGED <<dfs_visited, dfs_paths>>
           ELSE IF CompletePath(teams, dfs_path[c],
                                get_team(teams, call[c].away_team).team)
                THEN /\ dfs_paths' = [dfs_paths EXCEPT ![c] = Append(@, dfs_path[c])]
                     /\ Return(c)
                     /\ UNCHANGED dfs_visited
                ELSE /\ dfs_visited' = [dfs_visited EXCEPT ![s] = mark(@, f.team.name)]
                     /\ dfs_stack' = [dfs_stack EXCEPT ![c][Len(dfs_stack[c])] =
                                         [f EXCEPT !.pc = "loop", !.i = 1]]
                     /\ UNCHANGED <<call, dfs_paths>>
        /\ UNCHANGED <<teams, last, dfs_path>>

\* one turn of the for loop: lines 127-136, or line 139 when it is over
DfsLoop(c) ==
    LET f == Last(dfs_stack[c])
        s == visited_slot(c)
        top == Len(dfs_stack[c])
    IN  /\ Running(c) /\ f.pc = "loop"
        /\ IF f.i > Len(TeamObject(teams, f.team).matches)
           THEN /\ dfs_visited' = [dfs_visited EXCEPT ![s] = unmark(@, f.team.name)]
                /\ Return(c)
                /\ UNCHANGED dfs_path
           ELSE LET match == TeamObject(teams, f.team).matches[f.i]
                    other_team == get_other_team(teams, match, f.team)
                IN  IF SkipMatch(teams, match, other_team, call[c].season,
                                 dfs_visited[s], f.at_home)
                    THEN /\ dfs_stack' = [dfs_stack EXCEPT ![c][top].i = next_index(@)]
                         /\ UNCHANGED <<call, dfs_visited, dfs_path>>
                    ELSE /\ dfs_path' = [dfs_path EXCEPT ![c] = Append(@, match)]
                         /\ dfs_stack' = [dfs_stack EXCEPT ![c] =
                                Append([@ EXCEPT ![top].pc = "back"],
                                       Frame(other_team, ~f.at_home, dfs_visited[s],
                                             Append(dfs_path[c], match)))]
                         /\ UNCHANGED <<call, dfs_visited>>
        /\ UNCHANGED <<teams, last, dfs_paths>>

\* the recursive call has returned: `path.pop()`, line 137
DfsBack(c) ==
    LET f == Last(dfs_stack[c])
        top == Len(dfs_stack[c])
    IN  /\ Running(c) /\ f.pc = "back"
        /\ dfs_path' = [dfs_path EXCEPT ![c] = Front(@)]
        /\ dfs_stack' = [dfs_stack EXCEPT ![c][top] =
                            [f EXCEPT !.pc = "loop", !.i = next_index(@)]]
        /\ UNCHANGED <<teams, last, call, dfs_visited, dfs_paths>>

\* one step of invocation c
DfsStep(c) == DfsEnter(c) \/ DfsLoop(c) \/ DfsBack(c)

\* the first matches played are loaded and one enumeration runs on them
NextDfs ==
    \/ AddTeamFirst
    \/ AddNextMatch(MaxDfsMatches)
    \/ StartCall(1, Depths)
    \/ DfsEnter(1)
    \/ DfsLoop(1)
    \/ DfsBack(1)

SpecDfs == Init /\ [][NextDfs]_vars

\* the interpreter goes on running an invocation that has a step to take
SpecDfsFair == SpecDfs /\ WF_vars(DfsStep(1))

\* the invocations are numbered in the order they are made
InTurn(c) == \A d \in Calls : d < c => call[d].status # "idle"

\* the first matches played are loaded and two enumerations of predict's
\* depth run on them, one after the other or with their steps interleaved
\* in any order
NextConcurrent ==
    \/ AddTeamFirst
    \/ AddNextMatch(MaxConcurrentMatches)
    \/ \E c \in Calls : StartCall(c, {PREDICTION_DEPTH}) /\ InTurn(c)
    \/ \E c \in Calls : DfsEnter(c)
    \/ \E c \in Calls : DfsLoop(c)
    \/ \E c \in Calls : DfsBack(c)

SpecConcurrent == Init /\ [][NextConcurrent]_vars

\* _find_all_paths called with the arguments of the call already made
StartCallAgain(c) ==
    /\ StartCall(c, {PREDICTION_DEPTH})
    /\ InTurn(c)
    /\ \A d \in Calls \ {c} :
          call[d].status # "idle" =>
              /\ call'[c].home_team = call[d].home_team
              /\ call'[c].away_team = call[d].away_team
              /\ call'[c].season = call[d].season
              /\ call'[c].depth = call[d].depth

\* the league is loaded, then _find_all_paths is called twice with the same
\* arguments
NextTwice ==
    \/ AddTeamFirst
    \/ AddNextMatch(MaxTwiceMatches)
    \/ \E c \in Calls : StartCallAgain(c)
    \/ \E c \in Calls : DfsEnter(c)
    \/ \E c \in Calls : DfsLoop(c)
    \/ \E c \in Calls : DfsBack(c)

SpecTwice == Init /\ [][NextTwice]_vars

----------------------------------------------------------------------------
(* What the specification says a chain is, stated without the search.      *)

\* the team a traveller starting at src stands at after the first i matches
\* of ms: each match takes it to the side it did not come from
RECURSIVE TeamAfter(_, _, _)

TeamAfter(src, ms, i) ==
    IF i = 0 THEN src
    ELSE LET from == TeamAfter(src, ms, i - 1)
         IN  IF ms[i].home_team.name = from THEN ms[i].away_team.name ELSE ms[i].home_team.name

\* the traveller departing on the i-th match is that match's home side when
\* i is odd and its away side when i is even
RoleAlternates(src, ms) ==
    \A i \in 1 .. Len(ms) :
        IF i % 2 = 1 THEN ms[i].home_team.name = TeamAfter(src, ms, i - 1)
                     ELSE ms[i].away_team.name = TeamAfter(src, ms, i - 1)

\* source, each intermediate team, destination
TeamsVisited(src, dst, ms) ==
    [i \in 1 .. Len(ms) + 1 |->
        IF i = Len(ms) + 1 THEN dst ELSE TeamAfter(src, ms, i - 1)]

NoRepeat(s) == \A i, j \in DOMAIN s : i # j => s[i] # s[j]

\* ms is a chain of the season from src to dst of at most D matches
IsChain(src, dst, season, D, ms) ==
    /\ 1 <= Len(ms) /\ Len(ms) <= D
    /\ \A i \in 1 .. Len(ms) : ms[i].season = season
    /\ RoleAlternates(src, ms)
    /\ TeamAfter(src, ms, Len(ms)) = dst
    /\ NoRepeat(TeamsVisited(src, dst, ms))
    /\ ms[Len(ms)].away_team.name = dst

\* every chain of league ts.  A chain visits one team more than it has
\* matches and no team twice, so it is shorter than the league has teams.
Chains(ts, src, dst, season, D) ==
    LET M == {m \in AllMatches(ts) : m.season = season}
        most == Cardinality(DOMAIN ts) - 1
        longest == IF D < most THEN D ELSE most
    IN  UNION {{ms \in [1 .. k -> M] : IsChain(src, dst, season, D, ms)} :
               k \in 1 .. longest}

Enumerated == last.op = "_find_all_paths"

LongestReturned ==
    IF last.paths = <<>> THEN 0
    ELSE LET lens == {Len(last.paths[i]) : i \in DOMAIN last.paths}
         IN  CHOOSE n \in lens : \A m \in lens : m <= n

----------------------------------------------------------------------------
(* The claims *)

\* both sides of the match are Team objects the league holds: each is equal,
\* as Team's dataclass equality has it, to the league's Team of its name
OwnSides(ts, m) ==
    /\ team_in_league(ts, m.home_team.name)
    /\ team_in_league(ts, m.away_team.name)
    /\ team_eq(ts, TeamRef(m.home_team.name, "league"), m.home_team)
    /\ team_eq(ts, TeamRef(m.away_team.name, "league"), m.away_team)

\* C1: for every league, source, destination, season and depth bound D >= 1,
\* _find_all_paths returns exactly the chains of the season from the source
\* to the destination of at most D matches: each once, none missing, none
\* extra.
C1_ExactlyTheChains ==
    (Enumerated /\ last.depth >= 1) =>
        /\ Range(last.paths)
             = Chains(teams, last.home_team, last.away_team, last.season, last.depth)
        /\ Cardinality(Range(last.paths)) = Len(last.paths)

\* C1, where it fails: a match of the season has the source at home and the
\* destination away, and the enumeration returned nothing
C1_MissedChain ==
    /\ Enumerated /\ last.depth >= 1 /\ last.raised = "None"
    /\ last.paths = <<>>
    /\ \E m \in AllMatches(teams) :
          /\ m.season = last.season
          /\ m.home_team.name = last.home_team /\ m.away_team.name = last.away_team

\* Where the league's Teams are the sides of their matches (Team's
\* representation invariant) the enumeration with D >= 1 does return exactly
\* the chains, each once.
ExactlyTheChainsOfOwnSides ==
    (Enumerated /\ last.depth >= 1 /\ TeamInvariant(teams)) =>
        /\ Range(last.paths)
             = Chains(teams, last.home_team, last.away_team, last.season, last.depth)
        /\ Cardinality(Range(last.paths)) = Len(last.paths)

\* chains of one and of three matches were returned from a league whose
\* Teams are the sides of their matches
SeveralChainsReturned ==
    /\ Enumerated /\ last.depth >= 3 /\ TeamInvariant(teams)
    /\ \E i, j \in DOMAIN last.paths :
          Len(last.paths[i]) = 1 /\ Len(last.paths[j]) = 3

\* C2: no returned chain has more than D matches, whatever D is.
C2_DepthBound ==
    Enumerated => \A i \in DOMAIN last.paths : Len(last.paths[i]) <= last.depth

\* C2 witness: the league has a chain of three matches that a search with
\* D = 1 or D = 2 walked into, abandoned and did not return
C2_Witness ==
    /\ Enumerated /\ last.depth \in {1, 2}
    /\ last.paths # <<>>
    /\ \E ms \in Chains(teams, last.home_team, last.away_team, last.season,
                         PREDICTION_DEPTH) : Len(ms) > last.depth

\* C3: in every returned chain the team departing on the 1st, 3rd, ... match
\* is its home side and the team departing on the 2nd, 4th, ... match is its
\* away side.
C3_RoleAlternation ==
    Enumerated =>
        \A i \in DOMAIN last.paths : RoleAlternates(last.home_team, last.paths[i])

\* C3 witness: a returned chain has a 2nd match, left by its away side
C3_Witness ==
    /\ Enumerated
    /\ \E i \in DOMAIN last.paths :
          /\ Len(last.paths[i]) >= 2
          /\ last.paths[i][2].away_team.name = last.paths[i][1].away_team.name

\* C4: every returned chain ends with a match whose away side is the
\* destination, and no earlier match of the chain has the destination as
\* its away side.
C4_EndsAwayAtDestination ==
    Enumerated =>
        \A i \in DOMAIN last.paths :
            LET ms == last.paths[i]
            IN  /\ ms # <<>>
                /\ \A j \in DOMAIN ms :
                      (ms[j].away_team.name = last.away_team) <=> (j = Len(ms))

\* C4 witness: a returned chain of three matches whose second match has the
\* destination neither home nor away
C4_Witness ==
    /\ Enumerated
    /\ \E i \in DOMAIN last.paths :
          /\ Len(last.paths[i]) = 3
          /\ last.away_team \notin {last.paths[i][2].home_team.name,
                                     last.paths[i][2].away_team.name}

\* C5: the teams a returned chain visits (source, intermediate teams,
\* destination) are all different, also when source and destination are
\* the same team (then nothing is returned).
C5_NoTeamTwice ==
    Enumerated =>
        \A i \in DOMAIN last.paths :
            NoRepeat(TeamsVisited(last.home_team, last.away_team, last.paths[i]))

\* C5 witness: a returned chain visits four teams, in a league where a match
\* of the season leads back to the source
C5_Witness ==
    /\ Enumerated /\ LongestReturned = 3
    /\ \E m \in AllMatches(teams) :
          m.season = last.season /\ m.away_team.name = last.home_team

Predicted == last.op = "predict"

\* the chains predict enumerates for the call recorded in `last`
PredictChains ==
    Chains(teams, last.home, last.away, last.season, PREDICTION_DEPTH)

\* what predict's enumeration returns for the call recorded in `last`
PredictEnumerated ==
    find_all_paths(teams, TeamRef(last.home, "league"), TeamRef(last.away, "league"),
                   last.season, PREDICTION_DEPTH)

\* C6: when no chain leads from the source to the destination in the
\* season, or the enumeration finds none, predict ends in an error and
\* returns no number.
C6_NoChainIsAnError ==
    (/\ Predicted
     /\ team_in_league(teams, last.home) /\ team_in_league(teams, last.away)
     /\ (PredictChains = {} \/ PredictEnumerated = <<>>))
        => last.raised # "None"

\* C6 witness: both teams played in the season, no chain joins them, and
\* predict raised numpy's ZeroDivisionError
C6_Witness ==
    /\ Predicted /\ last.home # last.away
    /\ \E m1, m2 \in AllMatches(teams) :
          /\ m1.season = last.season /\ m1.home_team.name = last.home
          /\ m2.season = last.season /\ m2.away_team.name = last.away
    /\ PredictChains = {}
    /\ last.raised = "ZeroDivisionError"

\* C7 as claimed: a depth bound D <= 0 is reported as an InvalidDepth error.
C7_InvalidDepthRaised ==
    (Enumerated /\ last.depth <= 0) => last.raised = "InvalidDepth"

\* C7 as amended: with a depth bound D <= 0 the enumeration raises nothing
\* and returns the empty collection.
C7_NonPositiveDepthIsEmpty ==
    (Enumerated /\ last.depth <= 0) => (last.raised = "None" /\ last.paths = <<>>)

\* C7 witness: D <= 0 was given where D = 1 already finds a chain
C7_Witness ==
    /\ Enumerated /\ last.depth <= 0 /\ last.paths = <<>>
    /\ Chains(teams, last.home_team, last.away_team, last.season, 1) # {}

\* C8: get_team(name) returns the stored team when team_in_league(name), and
\* otherwise fails with KeyError; either way the league is left as it was.
C8_GetTeam ==
    [][(last'.op = "get_team") =>
          /\ teams' = teams
          /\ IF team_in_league(teams, last'.name)
             THEN last'.raised = "None" /\ last'.team = TeamRef(last'.name, "league")
             ELSE last'.raised = "KeyError"]_vars

\* C8 witness: a league built by add_team, add_season_to_team and add_match
\* was asked for a team it does not hold, and holds what it held
C8_Witness ==
    /\ last.op = "get_team" /\ last.raised = "KeyError"
    /\ ~team_in_league(teams, last.name)
    /\ AllMatches(teams) # {}
    /\ \E n \in DOMAIN teams : teams[n].matches = <<>>
    /\ \E n \in DOMAIN teams : teams[n].seasons # {}

----------------------------------------------------------------------------
(* The weighted mean of C9, in whole numbers. *)

RECURSIVE SumTo(_, _)

\* f[1] + ... + f[n]
SumTo(f, n) == IF n = 0 THEN 0 ELSE SumTo(f, n - 1) + f[n]

RECURSIVE ProductTo(_, _)

\* f[1] * ... * f[n]
ProductTo(f, n) == IF n = 0 THEN 1 ELSE ProductTo(f, n - 1) * f[n]

\* s_i: the sum over the chain's matches of home goals minus away goals
Signal(ms) ==
    SumTo([j \in DOMAIN ms |->
              ms[j].details[ms[j].home_team.name].full_time_goals
                - ms[j].details[ms[j].away_team.name].full_time_goals], Len(ms))

\* the digits of |n|
BigAbs(n) == BigOfNat(IF n < 0 THEN 0 - n ELSE n)

\* the distance between (-1)^xneg * x and (-1)^yneg * y
BigDistance(xneg, x, yneg, y) ==
    IF x = <<>> \/ y = <<>> \/ xneg # yneg THEN BigAdd(x, y)
    ELSE IF BigLess(x, y) THEN BigSub(y, x)
    ELSE BigSub(x, y)

\* how far below 1 the float v counts: v * 2^FloatScale(v) is whole
FloatScale(v) == IF v.exp < 0 THEN 0 - v.exp ELSE 0

\* |v * w - sw| * 2^(MantissaBits + FloatScale(v)), for a float v and
\* ints w and sw
MeanError(v, w, sw) ==
    BigDistance(v.neg,
                BigShl(BigMul(v.man, BigOfNat(w)),
                       MantissaBits + v.exp + FloatScale(v)),
                sw < 0,
                BigShl(BigAbs(sw), MantissaBits + FloatScale(v)))

\* the product P of all len_i
LengthProduct(chains) ==
    ProductTo([i \in 1 .. Len(chains) |-> Len(chains[i])], Len(chains))

\* sum_i(1/len_i) * P
WeightSum(chains) ==
    SumTo([i \in 1 .. Len(chains) |-> LengthProduct(chains) \div Len(chains[i])],
          Len(chains))

\* sum_i(s_i/len_i) * P
WeightedSignalSum(chains) ==
    SumTo([i \in 1 .. Len(chains) |->
              Signal(chains[i]) * (LengthProduct(chains) \div Len(chains[i]))],
          Len(chains))

RECURSIVE MaxSignal(_)

\* the largest |s_i|
MaxSignal(chains) ==
    IF chains = <<>> THEN 0
    ELSE LET m == MaxSignal(Front(chains))
             s == Signal(Last(chains))
             t == IF s < 0 THEN 0 - s ELSE s
         IN  IF t > m THEN t ELSE m

\* v = sum_i(s_i/len_i) / sum_i(1/len_i)
IsWeightedMean(v, chains) ==
    MeanError(v, WeightSum(chains), WeightedSignalSum(chains)) = <<>>

\* |v - sum_i(s_i/len_i) / sum_i(1/len_i)| <= (2n + 4) * 2^-53 * max_i |s_i|
\* for n chains: each of the n quotients 1/len_i, the n products, the 2n
\* sums and the last quotient is rounded by at most 2^-53 of its value
IsNearWeightedMean(v, chains) ==
    ~BigLess(BigShl(BigOfNat((2 * Len(chains) + 4) * MaxSignal(chains)
                                * WeightSum(chains)),
                    FloatScale(v)),
             MeanError(v, WeightSum(chains), WeightedSignalSum(chains)))

\* C9 as claimed: for a non-empty collection of enumerated chains predict
\* returns exactly sum_i(s_i/len_i) / sum_i(1/len_i).
C9_WeightedMean ==
    (/\ Predicted
     /\ team_in_league(teams, last.home) /\ team_in_league(teams, last.away)
     /\ PredictEnumerated # <<>>)
        => /\ last.raised = "None"
           /\ IsWeightedMean(last.value, PredictEnumerated)

\* C9 as amended: for n > 0 enumerated chains predict returns a float within
\* (2n + 4) * 2^-53 * max_i |s_i| of sum_i(s_i/len_i) / sum_i(1/len_i).
C9_WeightedMeanRounded ==
    (/\ Predicted
     /\ team_in_league(teams, last.home) /\ team_in_league(teams, last.away)
     /\ PredictEnumerated # <<>>)
        => /\ last.raised = "None"
           /\ IsNearWeightedMean(last.value, PredictEnumerated)

\* C9 witness: chains of one and of three matches with different signals
\* were averaged, and the float returned is not the mean but near it
C9_Witness ==
    /\ Predicted /\ last.raised = "None"
    /\ \E a, b \in PredictChains :
          Len(a) = 1 /\ Len(b) = 3 /\ Signal(a) # Signal(b)
    /\ ~IsWeightedMean(last.value, PredictEnumerated)
    /\ IsNearWeightedMean(last.value, PredictEnumerated)

\* the matches of the season with src at home and dst away
DirectMatches(ts, src, dst, season) ==
    {m \in AllMatches(ts) :
        m.season = season /\ m.home_team.name = src /\ m.away_team.name = dst}

\* depth 1, with exactly one match of the season that has the source at home
\* and the destination away: that match alone is returned when both its
\* sides are Team objects of the league, and nothing otherwise
C10_DepthOne ==
    (/\ Enumerated /\ last.depth = 1
     /\ Cardinality(DirectMatches(teams, last.home_team, last.away_team,
                                   last.season)) = 1)
        => \E m \in DirectMatches(teams, last.home_team, last.away_team,
                                   last.season) :
              last.paths = IF OwnSides(teams, m) THEN << <<m>> >> ELSE <<>>

\* C10 as claimed, on a league whose Teams are the sides of their matches:
\* with exactly one match of the season that has the source at home and the
\* destination away, depth 1 returns that match alone and the predicted
\* differential is that match's home goals minus away goals.
C10_SingleDirectMatch ==
    /\ TeamInvariant(teams) => C10_DepthOne
    /\ (/\ Predicted /\ TeamInvariant(teams)
        /\ Cardinality(DirectMatches(teams, last.home, last.away, last.season)) = 1)
           => \E m \in DirectMatches(teams, last.home, last.away, last.season) :
                 /\ last.raised = "None"
                 /\ last.value = float_of_int(Signal(<<m>>))

\* C10 as amended: depth 1 returns that match alone when both its sides are
\* Team objects of the league (nothing otherwise), and the predicted
\* differential is that match's home goals minus away goals when that match
\* alone is what predict's enumeration of at most PREDICTION_DEPTH matches
\* returns.
C10_SingleDirectMatchOnlyChain ==
    /\ C10_DepthOne
    /\ (/\ Predicted
        /\ team_in_league(teams, last.home) /\ team_in_league(teams, last.away)
        /\ Cardinality(DirectMatches(teams, last.home, last.away, last.season)) = 1)
           => \A m \in DirectMatches(teams, last.home, last.away, last.season) :
                 PredictEnumerated = << <<m>> >> =>
                    /\ last.raised = "None"
                    /\ last.value = float_of_int(Signal(<<m>>))

\* C10 witness: A 3 - B 1 is the only chain from A to B in a league of
\* several matches, and the prediction is +2
C10_Witness ==
    /\ Predicted /\ last.raised = "None" /\ TeamInvariant(teams)
    /\ Cardinality(DirectMatches(teams, last.home, last.away, last.season)) = 1
    /\ Cardinality(PredictChains) = 1
    /\ Cardinality(AllMatches(teams)) >= 3
    /\ last.value = float_of_int(2)

\* C11: every returned chain has an odd number of matches.
C11_OddLength ==
    Enumerated => \A i \in DOMAIN last.paths : Len(last.paths[i]) % 2 = 1

\* C11 witness: a chain of three matches was returned from a league in
\* which two matches of the season also lead from the source to the
\* destination, the second one arriving at its home side
C11_Witness ==
    /\ Enumerated /\ LongestReturned = 3
    /\ \E m1, m2 \in AllMatches(teams) :
          /\ m1.season = last.season /\ m2.season = last.season
          /\ m1.home_team.name = last.home_team
          /\ m2.away_team.name = m1.away_team.name
          /\ m2.home_team.name = last.away_team

\* C12: _find_all_paths and predict leave the league as it was, whether
\* they return chains, return none or fail.
C12_LeagueUnchanged ==
    [][(last'.op \in {"_find_all_paths", "predict"}) => teams' = teams]_vars

\* C12 witness: predict failed on a team the loaded league does not hold
C12_Witness ==
    /\ Predicted /\ last.raised = "KeyError"
    /\ Cardinality(AllMatches(teams)) >= 2
    /\ Cardinality(DOMAIN teams) < Cardinality(TeamNames)

\* how often x occurs in the sequence s
Occurrences(s, x) == Cardinality({i \in DOMAIN s : s[i] = x})

\* C15: every match in a team's sequence has that team as its home or away
\* side, and every added match is held exactly once by each of its two
\* participants.
C15_MatchesOfParticipants ==
    /\ \A n \in DOMAIN teams : \A i \in DOMAIN teams[n].matches :
          n \in {teams[n].matches[i].home_team.name, teams[n].matches[i].away_team.name}
    /\ \A m \in AllMatches(teams) \cup (IF last.op = "add_match" THEN {last.match} ELSE {}) :
          /\ team_in_league(teams, m.home_team.name)
          /\ team_in_league(teams, m.away_team.name)
          /\ Occurrences(teams[m.home_team.name].matches, m) = 1
          /\ Occurrences(teams[m.away_team.name].matches, m) = 1

\* C15 witness: two matches were added and one team played in both, once
\* named first and once named second
C15_Witness ==
    /\ last.op = "add_match"
    /\ \E n \in DOMAIN teams :
          /\ Len(teams[n].matches) = 2
          /\ last.team1 = n
          /\ \E m \in DOMAIN teams : m # n /\ teams[m].matches = <<teams[n].matches[1]>>

----------------------------------------------------------------------------
(* The claims about the search step by step *)

Done(c) == call[c].status = "done"

\* what invocation c returns when it runs alone
AloneResult(c) ==
    find_all_paths(teams, TeamRef(call[c].home_team, "league"),
                   TeamRef(call[c].away_team, "league"), call[c].season,
                   call[c].depth)

\* the two sequences hold the same elements equally often
SameMultiset(s, t) ==
    \A x \in Range(s) \cup Range(t) : Occurrences(s, x) = Occurrences(t, x)

\* C13: two enumerations over the same league, their steps interleaved in
\* any order, each return what they return when run alone.
C13_ConcurrentAsAlone ==
    \A c \in Calls : Done(c) => dfs_paths[c] = AloneResult(c)

\* C13 witness: one enumeration has returned a chain of three matches while
\* the other, started with other arguments, is in the middle of its search
C13_Witness ==
    \E c, d \in Calls :
        /\ Done(c) /\ \E i \in DOMAIN dfs_paths[c] : Len(dfs_paths[c][i]) = 3
        /\ Running(d) /\ Len(dfs_stack[d]) >= 2
        /\ dfs_visited[visited_slot(d)] # {}
        /\ call[d].home_team # call[c].home_team

\* C14: two calls with the same source, destination, season and depth on
\* the same league return the same multiset of chains.
C14_SameInputsSameChains ==
    (/\ Done(1) /\ Done(2)
     /\ call[1] = call[2])
        => SameMultiset(dfs_paths[1], dfs_paths[2])

\* C14 witness: both calls had the same arguments and returned two chains
C14_Witness ==
    /\ Done(1) /\ Done(2) /\ call[1] = call[2]
    /\ Len(dfs_paths[1]) >= 2 /\ Len(dfs_paths[2]) >= 2

\* C16 as claimed: at most D + 1 dfs calls are active at once (already
\* false for the depths D >= 0).
C16_StackAtMostDepthPlusOne ==
    (Running(1) /\ call[1].depth >= 0) => Len(dfs_stack[1]) <= call[1].depth + 1

\* C16 as amended: at most D + 2 dfs calls are active at once (and one when
\* D < 0): the call that finds the path longer than D is active as well.
C16_StackAtMostDepthPlusTwo ==
    Running(1) =>
        Len(dfs_stack[1]) <= (IF call[1].depth < 0 THEN 1 ELSE call[1].depth + 2)

\* C16 witness: with D = 2 four dfs calls are active
C16_Witness ==
    Running(1) /\ call[1].depth = 2 /\ Len(dfs_stack[1]) = 4

\* C17: every dfs call returns with visited and path as they were when it
\* was entered, however it returns, and both are empty when the enumeration
\* has finished.
C17_RestoredOnReturn ==
    [][\A c \in Calls :
          (Len(dfs_stack'[c]) < Len(dfs_stack[c])) =>
              /\ dfs_visited'[visited_slot(c)] = Last(dfs_stack[c]).entry_visited
              /\ dfs_path'[c] = Last(dfs_stack[c]).entry_path
              /\ Done(c)' => (dfs_visited'[visited_slot(c)] = {} /\ dfs_path'[c] = <<>>)]_vars

\* C17 witness: a search with D = 1 has finished after accepting a chain,
\* after abandoning a path of two matches and after exhausting a team's
\* matches, and visited and path are empty
C17_Witness ==
    /\ Done(1) /\ call[1].depth = 1 /\ dfs_paths[1] # <<>>
    /\ dfs_visited[visited_slot(1)] = {} /\ dfs_path[1] = <<>>
    /\ \E m1, m2 \in AllMatches(teams) :
          /\ m1.season = call[1].season /\ m2.season = call[1].season
          /\ m1.home_team.name = call[1].home_team
          /\ m1.away_team.name # call[1].away_team
          /\ m2.away_team.name = m1.away_team.name
          /\ m2.home_team.name # call[1].home_team

\* C18: an enumeration that has started terminates and returns its result.
C18_Terminates == Running(1) ~> Done(1)

\* C18 witness: an enumeration has returned on a league with a cycle of
\* matches and two matches between the same home and away side
C18_Witness ==
    /\ Done(1)
    /\ \E m1, m2, m3 \in AllMatches(teams) :
          /\ m1.season = call[1].season /\ m2.season = call[1].season
          /\ m3.season = call[1].season
          /\ m1.home_team.name = call[1].home_team
          /\ m2.home_team.name = m1.away_team.name /\ m2.away_team.name = m1.home_team.name
          /\ m3 # m1 /\ m3.home_team.name = m1.home_team.name /\ m3.away_team.name = m1.away_team.name

====
